---- MODULE Spec2Model ----
(***************************************************************************)
(* LocalKMS (pkg/kms/localkms/localkms.go): a key manager that keeps Tink  *)
(* keysets in a key-value store, each sealed with the master-key envelope  *)
(* AEAD.  Every call of a caller is a sequence of steps; the steps are    *)
(* cut at the store I/O of the code, so the store states between the      *)
(* store operations of one call are states of the model.                  *)
(***************************************************************************)
EXTENDS Integers, Sequences, FiniteSets, TLC

\* ------------------------------------------------------------------ bounds

\* Calls begun in one behaviour.
MaxCalls == 3
\* Distinct key materials drawn by key generation and by the importer.
MaxMat == 2
\* Key identifiers a keyset draws from (Tink draws a random uint32).
MaxKeyId == 3
\* Identifiers of store records.
MaxId == 4
\* Callers of the key manager.
NumCallers == 2

Callers == 1..NumCallers
\* The callers of the sequential specification: one call at a time.
SeqCallers == {1}
IDs == 1..MaxId
KeyIds == 1..MaxKeyId
Mats == 1..MaxMat
\* No record id / no key id / no public component.
NoId == 0

\* --------------------------------------------------------------- key types

\* The key types getKeyTemplate knows, in the order of its switch.
KeyTypes ==
    << "AES128GCM", "AES256GCMNoPrefix", "AES256GCM", "ChaCha20Poly1305",
       "XChaCha20Poly1305", "ECDSAP256DER", "ECDSAP384DER", "ECDSAP521DER",
       "ECDSAP256IEEEP1363", "ECDSAP384IEEEP1363", "ECDSAP521IEEEP1363",
       "ED25519", "HMACSHA256Tag256", "ECDHES256AES256GCM",
       "ECDHES384AES256GCM", "ECDHES521AES256GCM", "ECDH1PU256AES256GCM",
       "ECDH1PU384AES256GCM", "ECDH1PU521AES256GCM" >>

KeyTypeSet == {KeyTypes[i] : i \in DOMAIN KeyTypes}

\* The key types the calls of the model are made with: the empty one, an
\* unrecognized one, a symmetric one and an asymmetric one.
CallKeyTypes == {"", "NoSuchType", "AES256GCM", "ED25519"}

NoTemplate == [family |-> "none", code |-> 0, private |-> FALSE]

TypeCode(kt) == CHOOSE i \in DOMAIN KeyTypes : KeyTypes[i] = kt

\* The primitive family of a recognized key type.
Family(kt) ==
    CASE kt \in {"AES128GCM", "AES256GCMNoPrefix", "AES256GCM",
                 "ChaCha20Poly1305", "XChaCha20Poly1305"} -> "aead"
      [] kt \in {"ECDSAP256DER", "ECDSAP384DER", "ECDSAP521DER",
                 "ECDSAP256IEEEP1363", "ECDSAP384IEEEP1363",
                 "ECDSAP521IEEEP1363", "ED25519"} -> "signature"
      [] kt = "HMACSHA256Tag256" -> "mac"
      [] kt \in {"ECDHES256AES256GCM", "ECDHES384AES256GCM",
                 "ECDHES521AES256GCM"} -> "ecdhes"
      [] OTHER -> "ecdh1pu"

\* A getKeyTemplate whose switch lacks the case of HMACSHA256Tag256Type.
getKeyTemplateNoHMAC(kt) ==
    IF kt \in KeyTypeSet \ {"HMACSHA256Tag256"}
    THEN [err |-> "",
          tmpl |-> [family |-> Family(kt), code |-> TypeCode(kt),
                    private |-> Family(kt) \notin {"aead", "mac"}]]
    ELSE [err |-> "key type unrecognized", tmpl |-> NoTemplate]

\* getKeyTemplate: the template of a key type, or the error of the default
\* case.  A template's keys are asymmetric private keys unless the family
\* is aead or mac.
getKeyTemplate(kt) ==
    IF kt \in KeyTypeSet
    THEN [err |-> "",
          tmpl |-> [family |-> Family(kt), code |-> TypeCode(kt),
                    private |-> Family(kt) \notin {"aead", "mac"}]]
    ELSE [err |-> "key type unrecognized", tmpl |-> NoTemplate]

\* ------------------------------------------------------------------ keysets

\* A keyset (tink keyset.Handle): the primary key id and the keys in order.
\* A key: its id within the keyset, the code of its type, its status, its
\* secret bytes (0: none, a public key) and its public component (0: none,
\* a symmetric key).
NoHandle == [primary |-> NoId, keys |-> << >>]

Key(kid, code, priv, pub) ==
    [keyId |-> kid, code |-> code, status |-> "ENABLED", priv |-> priv, pub |-> pub]

KeyIdsOf(kh) == {kh.keys[i].keyId : i \in DOMAIN kh.keys}

\* registry.NewKeyData for a template with the drawn material: a private
\* key carries the public component of its secret, a symmetric key none.
NewKeyData(tmpl, kid, mat) ==
    Key(kid, tmpl.code, mat, IF tmpl.private THEN mat ELSE NoId)

\* keyset.NewHandle(template): a keyset of one key, which is the primary.
NewHandle(tmpl, kid, mat) ==
    [primary |-> kid, keys |-> << NewKeyData(tmpl, kid, mat) >>]

\* newKeyID without its check against the keys of the keyset.
NewKeyIDsUnchecked(kh) == KeyIds

\* The key ids keyset.Manager.newKeyID may draw: those no key of the keyset has.
NewKeyIDs(kh) == KeyIds \ KeyIdsOf(kh)

\* A rotation that starts the keyset anew instead of appending to it.
ManagerRotateReplacing(kh, tmpl, kid, mat) == NewHandle(tmpl, kid, mat)

\* keyset.Manager.Rotate followed by Handle(): the new key is appended and
\* becomes the primary; the keys before it stay as they are.
ManagerRotate(kh, tmpl, kid, mat) ==
    [primary |-> kid, keys |-> Append(kh.keys, NewKeyData(tmpl, kid, mat))]

\* --------------------------------------------------- the keyset serializer

\* The serialized keyset: the primary key id, the number of keys, then five
\* numbers per key.
StatusCode(s) == IF s = "ENABLED" THEN 1 ELSE 2
StatusOf(n) == IF n = 1 THEN "ENABLED" ELSE "DISABLED"

RECURSIVE MarshalKeys(_)
MarshalKeys(keys) ==
    IF keys = << >> THEN << >>
    ELSE << Head(keys).keyId, Head(keys).code, StatusCode(Head(keys).status),
            Head(keys).priv, Head(keys).pub >> \o MarshalKeys(Tail(keys))

Marshal(kh) == << kh.primary, Len(kh.keys) >> \o MarshalKeys(kh.keys)

RECURSIVE UnmarshalKeys(_, _)
UnmarshalKeys(bytes, n) ==
    IF n = 0 THEN << >>
    ELSE << [keyId |-> bytes[1], code |-> bytes[2], status |-> StatusOf(bytes[3]),
             priv |-> bytes[4], pub |-> bytes[5]] >>
         \o UnmarshalKeys(SubSeq(bytes, 6, Len(bytes)), n - 1)

\* Whether the bytes are the framing of a keyset: a header and five numbers
\* for each key it announces, and at least one key (keyset.Read refuses an
\* empty keyset).
WellFramed(bytes) ==
    /\ Len(bytes) >= 2
    /\ bytes[2] >= 1
    /\ Len(bytes) = 2 + 5 * bytes[2]

Unmarshal(bytes) ==
    [primary |-> bytes[1],
     keys |-> UnmarshalKeys(SubSeq(bytes, 3, Len(bytes)), bytes[2])]

\* ------------------------------------------------------ envelope encryption

\* The master key the key manager was built with (New).
MasterKey == 1

\* A master key that is not the key manager's.
OtherKey == MasterKey + 1

\* A store value: nothing, the envelope of a plaintext under a master key
\* (intact or altered), or bare bytes.
NoRec == [form |-> "none", mk |-> 0, pt |-> << >>, intact |-> TRUE]

\* masterKeyEnvAEAD.Encrypt: the envelope of the plaintext under the key.
Seal(pt, mk) == [form |-> "sealed", mk |-> mk, pt |-> pt, intact |-> TRUE]

\* A Decrypt that does not authenticate: it opens any envelope.
CanOpenUnauthenticated(blob, mk) == blob.form = "sealed"

\* masterKeyEnvAEAD.Decrypt succeeds on an intact envelope of the same key.
CanOpen(blob, mk) == blob.form = "sealed" /\ blob.mk = mk /\ blob.intact

Open(blob) == blob.pt


\* ------------------------------------------------------------------- state

VARIABLES
    store,    \* the kmsdb store: the value under each id, NoRec when absent
    issued,   \* the record ids drawn or requested so far
    pc,       \* each caller's place in its call
    cur,      \* each caller's frame: arguments and locals of its call
    ret,      \* what each caller's last call returned
    calls,    \* calls begun
    lastPut   \* per id, the keyset handle whose record was last put under it

vars == << store, issued, pc, cur, ret, calls, lastPut >>

\* The frame of a call: its arguments (op, kt, id, and reqId, the id of a
\* WithKeyID option), the id option handed on to the store writer (opts),
\* the handle it works on, the buffer storeKeySet filled, the id the store
\* writer settled on, the store as it was when the call began and the store
\* operations the call has issued.
NoFrame ==
    [op |-> "none", kt |-> "", id |-> NoId, reqId |-> NoId, opts |-> NoId,
     kh |-> NoHandle, buf |-> NoRec, wid |-> NoId,
     pre |-> [i \in IDs |-> NoRec], io |-> {}]

\* What a call returned: the call, its id or bytes, its handle, its error
\* ("" when it succeeded).
NoRet ==
    [op |-> "none", kt |-> "", id |-> NoId, reqId |-> NoId, outId |-> NoId,
     kh |-> NoHandle, bytes |-> << >>, err |-> "",
     pre |-> [i \in IDs |-> NoRec], io |-> {}]

Present(s) == {i \in IDs : s[i] # NoRec}

Init ==
    /\ store = [i \in IDs |-> NoRec]
    /\ issued = {}
    /\ pc = [c \in Callers |-> "idle"]
    /\ cur = [c \in Callers |-> NoFrame]
    /\ ret = [c \in Callers |-> NoRet]
    /\ calls = 0
    /\ lastPut = [i \in IDs |-> NoHandle]

\* A call begins: the caller is idle and the bound on calls is not reached.
CanBegin(c) == pc[c] = "idle" /\ calls < MaxCalls

Frame(op, kt, id, reqId, kh, io) ==
    [op |-> op, kt |-> kt, id |-> id, reqId |-> reqId, opts |-> NoId,
     kh |-> kh, buf |-> NoRec, wid |-> NoId, pre |-> store, io |-> io]

\* The call of frame f returns (outId, kh, bytes, err) to caller c.
Return(c, f, outId, kh, bytes, err) ==
    /\ ret' = [ret EXCEPT ![c] =
                 [op |-> f.op, kt |-> f.kt, id |-> f.id, reqId |-> f.reqId,
                  outId |-> outId, kh |-> kh, bytes |-> bytes, err |-> err,
                  pre |-> f.pre, io |-> f.io]]
    /\ pc' = [pc EXCEPT ![c] = "idle"]
    /\ cur' = [cur EXCEPT ![c] = NoFrame]

Fail(c, f, err) == Return(c, f, NoId, NoHandle, << >>, err)

\* The call goes on at step `at` with frame f.
Goto(c, at, f) ==
    /\ pc' = [pc EXCEPT ![c] = at]
    /\ cur' = [cur EXCEPT ![c] = f]
    /\ UNCHANGED ret

\* ---------------------------------------------------------------- getKeySet

\* The store has no record under id, or keyset.Read reads the one it has.
ReadKeySet(id) ==
    IF store[id] = NoRec THEN [err |-> "not found", kh |-> NoHandle]
    ELSE IF ~CanOpen(store[id], MasterKey)
         THEN [err |-> "decryption failed", kh |-> NoHandle]
    ELSE IF ~WellFramed(Open(store[id]))
         THEN [err |-> "corrupt keyset", kh |-> NoHandle]
    ELSE [err |-> "", kh |-> Unmarshal(Open(store[id]))]

\* A getKeySet that keeps the handle of the caller's last call and returns
\* it for that call's id without reading the store.
getKeySetCached(c, id) ==
    IF ret[c].err = "" /\ ret[c].kh # NoHandle /\ id \in {ret[c].id, ret[c].outId}
    THEN [err |-> "", kh |-> ret[c].kh]
    ELSE ReadKeySet(id)

\* getKeySet(id) when the store and the lock service answer: keyset.Read of
\* the record under id, decrypted with masterKeyEnvAEAD.
getKeySet(c, id) == ReadKeySet(id)

\* What getKeySet(id) may return: the store's Get may fail instead, and so
\* may the lock service's Decrypt once a record was read.
GetKeySetResults(c, id) ==
    { getKeySet(c, id), [err |-> "storage failure", kh |-> NoHandle] }
    \cup (IF store[id] # NoRec
          THEN {[err |-> "lock failure", kh |-> NoHandle]} ELSE {})


\* ------------------------------------------------------------------- Create

\* Create(kt) up to storeKeySet: the key type is checked, its template
\* resolved and a handle of one new key made.
Create(c, kt, kid, mat) ==
    /\ CanBegin(c)
    /\ calls' = calls + 1
    /\ UNCHANGED << store, issued, lastPut >>
    /\ LET f == Frame("Create", kt, NoId, NoId, NoHandle, {})
           t == getKeyTemplate(kt)
       IN  IF kt = "" THEN Fail(c, f, "missing key type")
           ELSE IF t.err # "" THEN Fail(c, f, t.err)
           ELSE Goto(c, "storeKeySet",
                     [f EXCEPT !.kh = NewHandle(t.tmpl, kid, mat)])

\* ---------------------------------------------- storeKeySet, writeToStore

\* A write of the serialized keyset as it is, with no encryption.
WriteKeysetPlain(kh) ==
    [form |-> "plain", mk |-> 0, pt |-> Marshal(kh), intact |-> TRUE]

\* kh.Write(jsonKeysetWriter, masterKeyEnvAEAD): the buffer storeKeySet
\* hands to writeToStore.
WriteKeyset(kh) == Seal(Marshal(kh), MasterKey)

\* storeKeySet up to writeToStore: the handle is written, encrypted with
\* masterKeyEnvAEAD, to the buffer; or the lock service fails.
StoreKeySet(c) ==
    /\ pc[c] = "storeKeySet"
    /\ UNCHANGED << store, issued, calls, lastPut >>
    /\ \/ Goto(c, "writerID", [cur[c] EXCEPT !.buf = WriteKeyset(cur[c].kh)])
       \/ Fail(c, cur[c], "lock failure")

\* A newKeysetID that looks at the store only: the lowest id the store has
\* no record under, drawn before or not.
FreshIdFirstFree == CHOOSE i \in IDs \ Present(store) :
                        \A j \in IDs \ Present(store) : i <= j

\* The id newKeysetID generates: one never drawn or requested before.
FreshId == CHOOSE i \in IDs \ issued : \A j \in IDs \ issued : i <= j

\* The writer of writeToStore settles the record's id: the requested id
\* (WithKeyID) if the store has no record under it, a generated one
\* otherwise; the store's Get may fail.
WriterID(c) ==
    /\ pc[c] = "writerID"
    /\ UNCHANGED << store, calls, lastPut >>
    /\ LET f == [cur[c] EXCEPT !.io = @ \cup {"get"}]
       IN  \/ /\ f.opts # NoId
              /\ UNCHANGED issued
              /\ IF store[f.opts] # NoRec
                 THEN Fail(c, f, "ID already exists")
                 ELSE Goto(c, "writerPut", [f EXCEPT !.wid = f.opts])
           \/ /\ f.opts = NoId
              /\ issued' = issued \cup {FreshId}
              /\ Goto(c, "writerPut", [f EXCEPT !.wid = FreshId])
           \/ /\ UNCHANGED issued
              /\ Fail(c, f, "storage failure")

\* The writer puts the buffer under the id, and the call returns the id and
\* the handle; or the store's Put fails.
WriterPut(c) ==
    /\ pc[c] = "writerPut"
    /\ UNCHANGED << issued, calls >>
    /\ LET f == [cur[c] EXCEPT !.io = @ \cup {"put"}]
       IN  \/ /\ store' = [store EXCEPT ![f.wid] = f.buf]
              /\ lastPut' = [lastPut EXCEPT ![f.wid] = f.kh]
              /\ Return(c, f, f.wid, f.kh, << >>, "")
           \/ /\ UNCHANGED << store, lastPut >>
              /\ Fail(c, f, "storage failure")

\* ------------------------------------------------------------------ Rotate

\* km.Rotate(keyTemplate) and km.Handle() on the handle read from the store.
RotateHandle(kh, tmpl, kid, mat) == ManagerRotate(kh, tmpl, kid, mat)

\* Rotate(kt, id) up to store.Delete: the keyset is read, the template
\* resolved and the new key appended as the primary.
Rotate(c, kt, id, kid, mat) ==
    /\ CanBegin(c)
    /\ calls' = calls + 1
    /\ UNCHANGED << store, issued, lastPut >>
    /\ \E r \in GetKeySetResults(c, id) :
         LET f == Frame("Rotate", kt, id, NoId, NoHandle, {"get"})
             t == getKeyTemplate(kt)
         IN  IF r.err # "" THEN Fail(c, f, r.err)
             ELSE IF t.err # "" THEN Fail(c, f, t.err)
             ELSE /\ kid \in NewKeyIDs(r.kh)
                  /\ Goto(c, "rotateDelete",
                          [f EXCEPT !.kh = RotateHandle(r.kh, t.tmpl, kid, mat)])

\* A Delete that removes nothing.
DeletedNothing(s, id) == s

\* The store after store.Delete(id).
Deleted(s, id) == [s EXCEPT ![id] = NoRec]

\* Rotate's store.Delete(keyID), which comes before storeKeySet(updatedKH);
\* a failed Delete ends the call.
RotateDelete(c) ==
    /\ pc[c] = "rotateDelete"
    /\ UNCHANGED << issued, calls, lastPut >>
    /\ LET f == [cur[c] EXCEPT !.io = @ \cup {"delete"}]
       IN  \/ /\ store' = Deleted(store, f.id)
              /\ Goto(c, "storeKeySet", f)
           \/ /\ UNCHANGED store
              /\ Fail(c, f, "storage failure")

\* --------------------------------------------------------------------- Get

\* A Get that stores the keyset it read again, as Create stores its own.
GetRestoring(c, id) ==
    /\ CanBegin(c)
    /\ calls' = calls + 1
    /\ UNCHANGED << store, issued, lastPut >>
    /\ \E r \in GetKeySetResults(c, id) :
         LET f == Frame("Get", "", id, NoId, NoHandle, {"get"})
         IN  IF r.err # "" THEN Fail(c, f, r.err)
             ELSE Goto(c, "storeKeySet", [f EXCEPT !.kh = r.kh])

\* Get(id): getKeySet(id).
Get(c, id) ==
    /\ CanBegin(c)
    /\ calls' = calls + 1
    /\ UNCHANGED << store, issued, lastPut >>
    /\ \E r \in GetKeySetResults(c, id) :
         Return(c, Frame("Get", "", id, NoId, NoHandle, {"get"}),
                NoId, r.kh, << >>, r.err)


\* ------------------------------------------------------- ExportPubKeyBytes

\* Whether a key is an asymmetric private key (its type's material type).
IsPrivateKey(k) ==
    /\ k.code \in DOMAIN KeyTypes
    /\ Family(KeyTypes[k.code]) \notin {"aead", "mac"}
    /\ k.priv # NoId

\* The public key of a private key: the same key without its secret bytes.
PublicKeyData(k) == [k EXCEPT !.priv = NoId]

\* A Public that takes the public handle of any keyset, without looking at
\* the material type of its keys.
PublicUnchecked(kh) ==
    [err |-> "",
     kh |-> [primary |-> kh.primary,
             keys |-> [i \in DOMAIN kh.keys |-> PublicKeyData(kh.keys[i])]]]

\* kh.Public(): the handle of the public keys; an error if a key of the
\* keyset is not an asymmetric private key.
Public(kh) ==
    IF \A i \in DOMAIN kh.keys : IsPrivateKey(kh.keys[i])
    THEN [err |-> "",
          kh |-> [primary |-> kh.primary,
                  keys |-> [i \in DOMAIN kh.keys |-> PublicKeyData(kh.keys[i])]]]
    ELSE [err |-> "keyset contains a non-private key", kh |-> NoHandle]

\* The public key writer (NewWriter): the bytes of the enabled primary key's
\* public component.
PubKeyWriterBytes(kh) ==
    LET prim == {i \in DOMAIN kh.keys :
                   kh.keys[i].keyId = kh.primary /\ kh.keys[i].status = "ENABLED"}
    IN  IF prim = {} THEN << >>
        ELSE << kh.keys[CHOOSE i \in prim : \A j \in prim : i <= j].pub >>

\* pubKH.WriteWithNoSecrets(pubKeyWriter): refused when a key of the handle
\* holds secret bytes; an error when the writer wrote no key.
WriteWithNoSecrets(kh) ==
    IF \E i \in DOMAIN kh.keys : kh.keys[i].priv # NoId
    THEN [err |-> "exporting secret key material is forbidden", bytes |-> << >>]
    ELSE IF PubKeyWriterBytes(kh) = << >>
         THEN [err |-> "key not written", bytes |-> << >>]
    ELSE [err |-> "", bytes |-> PubKeyWriterBytes(kh)]

\* An export that writes the primary key of the handle it read, secret
\* bytes included.
ExportBytesWithSecrets(kh) ==
    LET prim == {i \in DOMAIN kh.keys : kh.keys[i].keyId = kh.primary}
    IN  IF prim = {} THEN [err |-> "key not written", bytes |-> << >>]
        ELSE [err |-> "",
              bytes |-> << kh.keys[CHOOSE i \in prim : TRUE].pub,
                           kh.keys[CHOOSE i \in prim : TRUE].priv >>]

\* ExportPubKeyBytes after getKeySet returned kh: the public handle is
\* taken and written with no secrets.
ExportBytes(kh) ==
    IF Public(kh).err # "" THEN [err |-> Public(kh).err, bytes |-> << >>]
    ELSE WriteWithNoSecrets(Public(kh).kh)

\* ExportPubKeyBytes(id).
ExportPubKeyBytes(c, id) ==
    /\ CanBegin(c)
    /\ calls' = calls + 1
    /\ UNCHANGED << store, issued, lastPut >>
    /\ \E r \in GetKeySetResults(c, id) :
         LET f == Frame("ExportPubKeyBytes", "", id, NoId, NoHandle, {"get"})
         IN  IF r.err # "" THEN Fail(c, f, r.err)
             ELSE Return(c, f, NoId, NoHandle,
                         ExportBytes(r.kh).bytes, ExportBytes(r.kh).err)

\* ----------------------------------------------------- PubKeyBytesToHandle

\* The public key bytes a caller may hand in: none, or one key's.
PubKeyInputs == {<< >>} \cup {<< m >> : m \in Mats}

\* publicKeyBytesToHandle(pubKey, kt): a handle of the one public key, for
\* a key type whose keys have a public component; it works on its
\* arguments only.
publicKeyBytesToHandle(pubKey, kt) ==
    IF pubKey = << >> THEN [err |-> "pubKey is empty", kh |-> NoHandle]
    ELSE IF getKeyTemplate(kt).err # "" \/ ~getKeyTemplate(kt).tmpl.private
         THEN [err |-> "invalid key type", kh |-> NoHandle]
    ELSE [err |-> "",
          kh |-> [primary |-> 1,
                  keys |-> << Key(1, getKeyTemplate(kt).tmpl.code, NoId,
                                  pubKey[1]) >>]]

\* A PubKeyBytesToHandle that stores the handle it made, as Create does.
PubKeyBytesToHandleStoring(c, pubKey, kt) ==
    /\ CanBegin(c)
    /\ calls' = calls + 1
    /\ UNCHANGED << store, issued, lastPut >>
    /\ LET f == Frame("PubKeyBytesToHandle", kt, NoId, NoId, NoHandle, {})
           r == publicKeyBytesToHandle(pubKey, kt)
       IN  IF r.err # "" THEN Fail(c, f, r.err)
           ELSE Goto(c, "storeKeySet", [f EXCEPT !.kh = r.kh])

\* PubKeyBytesToHandle(pubKey, kt): what publicKeyBytesToHandle returns,
\* with no call of the store.
PubKeyBytesToHandle(c, pubKey, kt) ==
    /\ CanBegin(c)
    /\ calls' = calls + 1
    /\ UNCHANGED << store, issued, lastPut >>
    /\ LET f == Frame("PubKeyBytesToHandle", kt, NoId, NoId, NoHandle, {})
           r == publicKeyBytesToHandle(pubKey, kt)
       IN  Return(c, f, NoId, r.kh, << >>, r.err)

\* -------------------------------------------------------- ImportPrivateKey

\* The private key values a caller may hand in: an Ed25519 or an ECDSA
\* private key (secret d, public x: the caller sets both), or something
\* else (bytes of a symmetric key, a public key).  Two of them differ in the
\* secret only.
PrivKeyInputs ==
    {[kind |-> "ed25519", d |-> d, x |-> 1] : d \in Mats}
    \cup {[kind |-> "ecdsa", d |-> 1, x |-> 1],
          [kind |-> "bytes", d |-> 1, x |-> NoId],
          [kind |-> "publickey", d |-> NoId, x |-> 1]}

\* The ids a caller requests with WithKeyID (NoId: none).
ReqIds == {NoId, 1, 2}

\* The key types ImportPrivateKey is called with.
ImportKeyTypes == {"ED25519", "ECDSAP256IEEEP1363", "AES256GCM"}

ECDSATypes ==
    {"ECDSAP256DER", "ECDSAP384DER", "ECDSAP521DER",
     "ECDSAP256IEEEP1363", "ECDSAP384IEEEP1363", "ECDSAP521IEEEP1363"}

\* importECDSAKey / importEd25519Key: the key type must be one of the
\* private key's kind; the keyset has the one key.
ImportKeyTypeOK(privKey, kt) ==
    \/ privKey.kind = "ecdsa" /\ kt \in ECDSATypes
    \/ privKey.kind = "ed25519" /\ kt = "ED25519"

\* The keyset of an imported key: the one key, with the secret and the
\* public component of the private key as the caller set them.
ImportedHandle(privKey, kt) ==
    [primary |-> 1, keys |-> << Key(1, TypeCode(kt), privKey.d, privKey.x) >>]

\* An ImportPrivateKey that does not hand its opts on.
DropOpts(reqId) == NoId

\* The opts ImportPrivateKey hands on to the import of the key, and that to
\* writeToStore: the caller's.
ForwardOpts(reqId) == reqId

\* A switch that takes every value for a private key.
PrivKeySupportedAny(privKey) == TRUE

\* The switch of ImportPrivateKey on the type of privKey: an
\* *ecdsa.PrivateKey or an ed25519.PrivateKey has a case, anything else
\* falls to the default.
PrivKeySupported(privKey) == privKey.kind \in {"ecdsa", "ed25519"}

\* ImportPrivateKey(privKey, kt, opts) up to storing the keyset: the switch
\* on the private key's type, then the import of the key, which stores its
\* keyset as storeKeySet does (serialized, sealed, put), under the id of
\* opts if there is one.
ImportPrivateKey(c, privKey, kt, reqId) ==
    /\ CanBegin(c)
    /\ calls' = calls + 1
    /\ UNCHANGED << store, lastPut >>
    /\ LET f == Frame("ImportPrivateKey", kt, NoId, reqId, NoHandle, {})
       IN  IF ~PrivKeySupported(privKey)
           THEN /\ Fail(c, f, "import private key does not support this key type or key is public")
                /\ UNCHANGED issued
           ELSE IF ~ImportKeyTypeOK(privKey, kt)
                THEN /\ Fail(c, f, "invalid key type")
                     /\ UNCHANGED issued
           ELSE /\ issued' = issued \cup ({reqId} \ {NoId})
                /\ Goto(c, "storeKeySet",
                        [f EXCEPT !.opts = ForwardOpts(reqId),
                                  !.kh = ImportedHandle(privKey, kt)])

\* ------------------------------------------------------------ specification

\* The calls and steps of caller c.
Step(c) ==
    \/ \E kt \in CallKeyTypes, kid \in KeyIds, mat \in Mats : Create(c, kt, kid, mat)
    \/ \E kt \in CallKeyTypes, id \in IDs, kid \in KeyIds, mat \in Mats :
          Rotate(c, kt, id, kid, mat)
    \/ \E id \in IDs : Get(c, id)
    \/ \E id \in IDs : ExportPubKeyBytes(c, id)
    \/ \E pubKey \in PubKeyInputs, kt \in CallKeyTypes : PubKeyBytesToHandle(c, pubKey, kt)
    \/ \E privKey \in PrivKeyInputs, kt \in ImportKeyTypes, reqId \in ReqIds :
          ImportPrivateKey(c, privKey, kt, reqId)
    \/ StoreKeySet(c)
    \/ WriterID(c)
    \/ WriterPut(c)
    \/ RotateDelete(c)

\* One caller: the calls follow each other.
Next == \E c \in SeqCallers : Step(c)

Spec == Init /\ [][Next]_vars

\* The store's owner deletes the record under id directly (Store.Delete,
\* not a call of the key manager), between two calls.
DirectDelete(id) ==
    /\ \A c \in Callers : pc[c] = "idle"
    /\ calls < MaxCalls
    /\ store[id] # NoRec
    /\ store' = Deleted(store, id)
    /\ UNCHANGED << issued, pc, cur, ret, calls, lastPut >>

NextEnv ==
    \/ \E c \in SeqCallers : Step(c)
    \/ \E id \in IDs : DirectDelete(id)

\* The calls of one caller, with records deleted in the store between them.
SpecEnv == Init /\ [][NextEnv]_vars

\* The key types of the calls that go through every case of getKeyTemplate:
\* the supported ones, the empty one and an unrecognized one.
AllCallKeyTypes == KeyTypeSet \cup {"", "NoSuchType"}

\* The key types a keyset is rotated to where every key type is created: a
\* symmetric one and an asymmetric one.
RotateKeyTypes == {"HMACSHA256Tag256", "ED25519"}

\* The calls of one caller with every key type: keysets of each type are
\* created, rotated and exported.
StepKeyTypes(c) ==
    \/ \E kt \in AllCallKeyTypes : Create(c, kt, 1, 1)
    \/ \E kt \in RotateKeyTypes, id \in IDs : Rotate(c, kt, id, 2, 1)
    \/ \E id \in IDs : ExportPubKeyBytes(c, id)
    \/ StoreKeySet(c)
    \/ WriterID(c)
    \/ WriterPut(c)
    \/ RotateDelete(c)

NextKeyTypes == \E c \in SeqCallers : StepKeyTypes(c)

SpecKeyTypes == Init /\ [][NextKeyTypes]_vars

\* The calls of two callers that create and rotate keysets of one key type,
\* a step of one between two steps of the other: the key manager holds no
\* lock over the steps of a call.
StepRotateRace(c) ==
    \/ Create(c, "ED25519", 1, 1)
    \/ \E id \in IDs, kid \in KeyIds, mat \in Mats : Rotate(c, "ED25519", id, kid, mat)
    \/ StoreKeySet(c)
    \/ WriterID(c)
    \/ WriterPut(c)
    \/ RotateDelete(c)

NextRotateRace == \E c \in Callers : StepRotateRace(c)

SpecRotateRace == Init /\ [][NextRotateRace]_vars

\* The calls of two callers that import private keys under ids of their
\* choice, a step of one between two steps of the other.
StepImportRace(c) ==
    \/ \E privKey \in PrivKeyInputs, reqId \in ReqIds :
          ImportPrivateKey(c, privKey, "ED25519", reqId)
    \/ StoreKeySet(c)
    \/ WriterID(c)
    \/ WriterPut(c)

NextImportRace == \E c \in Callers : StepImportRace(c)

SpecImportRace == Init /\ [][NextImportRace]_vars

\* A record the key manager sealed and nobody touched since.
Pristine(blob) ==
    /\ blob.form = "sealed"
    /\ blob.mk = MasterKey
    /\ blob.intact
    /\ WellFramed(blob.pt)

\* What the store's owner may do to the record under id between two calls.
CanTamper(id) ==
    /\ \A c \in Callers : pc[c] = "idle"
    /\ calls < MaxCalls
    /\ Pristine(store[id])

\* The bytes with the secret of the first key altered.
Altered(pt) == [pt EXCEPT ![6] = (@ % MaxMat) + 1]

\* A byte of the record is altered: the envelope no longer authenticates.
AlterRecord(id) ==
    /\ CanTamper(id)
    /\ store' = [store EXCEPT ![id] =
                   [@ EXCEPT !.pt = Altered(@), !.intact = FALSE]]
    /\ UNCHANGED << issued, pc, cur, ret, calls, lastPut >>

\* The record loses its end: the framing of the envelope is truncated.
TruncateRecord(id) ==
    /\ CanTamper(id)
    /\ store' = [store EXCEPT ![id] =
                   [@ EXCEPT !.pt = SubSeq(@, 1, Len(@) - 1), !.intact = FALSE]]
    /\ UNCHANGED << issued, pc, cur, ret, calls, lastPut >>

\* The record is replaced by the envelope of the same keyset under another
\* master key.
ForeignKeyRecord(id) ==
    /\ CanTamper(id)
    /\ store' = [store EXCEPT ![id] = Seal(store[id].pt, OtherKey)]
    /\ UNCHANGED << issued, pc, cur, ret, calls, lastPut >>

\* The record is replaced by an envelope, under the key manager's master
\* key, of bytes that are not the framing of a keyset.
MisframedRecord(id) ==
    /\ CanTamper(id)
    /\ store' = [store EXCEPT ![id] =
                   Seal(SubSeq(store[id].pt, 1, Len(store[id].pt) - 1), MasterKey)]
    /\ UNCHANGED << issued, pc, cur, ret, calls, lastPut >>

\* The calls of one caller that create and read keysets, with records
\* corrupted in the store between them.
StepTamper(c) ==
    \/ \E mat \in Mats : Create(c, "ED25519", 1, mat)
    \/ \E id \in IDs : Get(c, id)
    \/ StoreKeySet(c)
    \/ WriterID(c)
    \/ WriterPut(c)

NextTamper ==
    \/ \E c \in SeqCallers : StepTamper(c)
    \/ \E id \in IDs : AlterRecord(id)
    \/ \E id \in IDs : TruncateRecord(id)
    \/ \E id \in IDs : ForeignKeyRecord(id)
    \/ \E id \in IDs : MisframedRecord(id)

SpecTamper == Init /\ [][NextTamper]_vars


\* ================================================================== properties

\* Caller c's last call has returned and c has begun no other.
Returned(c) == pc[c] = "idle" /\ ret[c].op # "none"

Succeeded(c, op) == Returned(c) /\ ret[c].op = op /\ ret[c].err = ""

\* The record s[id] can be read back as a keyset / the keyset it holds.
Readable(s, id) ==
    s[id] # NoRec /\ CanOpen(s[id], MasterKey) /\ WellFramed(Open(s[id]))

KeysetAt(s, id) == Unmarshal(Open(s[id]))

KeysOf(kh) == {kh.keys[i] : i \in DOMAIN kh.keys}

\* --- C1
\* C1: in every state of a Rotate(kt, id) in progress, the store holds the
\* keyset under the old id or under the new id (the new record is put
\* before the old one is deleted).
C1_KeysetHeldDuringRotate ==
    \A c \in Callers :
        (pc[c] # "idle" /\ cur[c].op = "Rotate") =>
            \/ store[cur[c].id] # NoRec
            \/ cur[c].wid # NoId /\ store[cur[c].wid] # NoRec

\* --- C2
\* C2: a call of Create, Get, Rotate, ExportPubKeyBytes or ImportPrivateKey
\* that returned an error left the store as it was when the call began.
C2_NoPartialSuccess ==
    \A c \in Callers :
        ( /\ Returned(c)
          /\ ret[c].op \in {"Create", "Get", "Rotate", "ExportPubKeyBytes",
                            "ImportPrivateKey"}
          /\ ret[c].err # "" )
        => store = ret[c].pre

\* --- C3
\* C3: no call loses a keyset: when a call has returned, every keyset the
\* store held when the call began is still held, with every one of its
\* keys, by some record of the store.
C3_KeysetNeverDeleted ==
    \A c \in Callers :
        Returned(c) =>
            \A id \in IDs :
                Readable(ret[c].pre, id) =>
                    \E id2 \in IDs :
                        /\ Readable(store, id2)
                        /\ KeysOf(KeysetAt(ret[c].pre, id)) \subseteq
                               KeysOf(KeysetAt(store, id2))

\* --- C4
\* C4: after a successful Rotate(kt, id) the returned id differs from id,
\* the store holds a record under the returned id and none under id, and
\* it holds as many records as before the call.
C4_RotateReplacesRecord ==
    \A c \in Callers :
        Succeeded(c, "Rotate") =>
            /\ ret[c].outId # ret[c].id
            /\ ret[c].outId # NoId
            /\ store[ret[c].outId] # NoRec
            /\ store[ret[c].id] = NoRec
            /\ Cardinality(Present(store)) = Cardinality(Present(ret[c].pre))

C4_Witness == \E c \in Callers : Succeeded(c, "Rotate")

\* --- C5
\* C5: the keyset a successful Rotate returns, which is the one stored under
\* the returned id, is the keyset that was stored under the old id with one
\* key appended: the old keys are unchanged and in order, the new key is
\* the primary, the former primary is still there and no longer primary,
\* and the new key's id is the id of no old key.
C5_RotateOnlyAppends ==
    \A c \in Callers :
        Succeeded(c, "Rotate") =>
            LET old == KeysetAt(ret[c].pre, ret[c].id)
                new == ret[c].kh
                n == Len(old.keys)
            IN  /\ Readable(store, ret[c].outId)
                /\ KeysetAt(store, ret[c].outId) = new
                /\ Len(new.keys) = n + 1
                /\ SubSeq(new.keys, 1, n) = old.keys
                /\ new.primary = new.keys[n + 1].keyId
                /\ new.primary # old.primary
                /\ \E i \in 1..n : new.keys[i].keyId = old.primary
                /\ new.keys[n + 1].keyId \notin KeyIdsOf(old)

\* A Rotate of a keyset that was rotated before has succeeded.
C5_Witness ==
    \E c \in Callers : Succeeded(c, "Rotate") /\ Len(ret[c].kh.keys) = 3

\* --- C6
\* A keyset with at least one key and exactly one primary key.
OnePrimary(kh) ==
    /\ Len(kh.keys) >= 1
    /\ Cardinality({i \in DOMAIN kh.keys : kh.keys[i].keyId = kh.primary}) = 1

\* C6: every keyset a store record holds, and every handle Create, Get,
\* Rotate or ImportPrivateKey returned, has at least one key and exactly
\* one primary key.
C6_OnePrimary ==
    /\ \A id \in IDs : Readable(store, id) => OnePrimary(KeysetAt(store, id))
    /\ \A c \in Callers :
          ( /\ ret[c].op \in {"Create", "Get", "Rotate", "ImportPrivateKey"}
            /\ ret[c].err = "" )
          => OnePrimary(ret[c].kh)

\* A record holds a keyset of several keys, and Get returned such a keyset.
C6_Witness ==
    /\ \E id \in IDs : Readable(store, id) /\ Len(KeysetAt(store, id).keys) >= 2
    /\ \E c \in Callers : Succeeded(c, "Get") /\ Len(ret[c].kh.keys) >= 2

\* --- C7
\* C7: an ImportPrivateKey with WithKeyID(id), when the store has a record
\* under id, fails and leaves that record as it was; its error is "ID
\* already exists" once the call has asked the store for the id and the
\* store has answered (a key that is refused, or a lock or store failure,
\* ends the call with its own error).
C7_ImportExistingIDFails ==
    \A c \in Callers :
        ( /\ Returned(c)
          /\ ret[c].op = "ImportPrivateKey"
          /\ ret[c].reqId # NoId
          /\ ret[c].pre[ret[c].reqId] # NoRec )
        => /\ ret[c].err # ""
           /\ ret[c].outId = NoId
           /\ ret[c].kh = NoHandle
           /\ store[ret[c].reqId] = ret[c].pre[ret[c].reqId]
           /\ ("get" \in ret[c].io /\ ret[c].err # "storage failure")
                  => ret[c].err = "ID already exists"

C7_Witness ==
    \E c \in Callers :
        /\ Returned(c)
        /\ ret[c].op = "ImportPrivateKey"
        /\ ret[c].reqId # NoId
        /\ ret[c].pre[ret[c].reqId] # NoRec
        /\ ret[c].err = "ID already exists"

\* --- C8
\* C8: Get(id) returns the keyset last put under id when the store holds a
\* record under id, and fails, with "not found" unless the store's Get
\* itself failed, when the store holds none: after a Rotate of id, after a
\* direct deletion of the record.
C8_GetReflectsStore ==
    \A c \in Callers :
        (Returned(c) /\ ret[c].op = "Get") =>
            /\ ret[c].pre[ret[c].id] = NoRec =>
                  /\ ret[c].err \in {"not found", "storage failure"}
                  /\ ret[c].kh = NoHandle
            /\ ret[c].err = "not found" => ret[c].pre[ret[c].id] = NoRec
            /\ ret[c].err = "" =>
                  /\ ret[c].pre[ret[c].id] # NoRec
                  /\ ret[c].kh = lastPut[ret[c].id]

\* Get failed with "not found" for an id under which a keyset was put.
C8_Witness ==
    \E c \in Callers :
        /\ Returned(c)
        /\ ret[c].op = "Get"
        /\ ret[c].err = "not found"
        /\ lastPut[ret[c].id] # NoHandle

\* --- C9
\* C9: every record of the store is the envelope, under the master key, of
\* the serialized keyset that was put under its id, and every buffer on its
\* way to the store is such an envelope.
C9_OnlySealedRecords ==
    /\ \A id \in IDs :
          store[id] # NoRec => store[id] = Seal(Marshal(lastPut[id]), MasterKey)
    /\ \A c \in Callers :
          cur[c].buf # NoRec => cur[c].buf = Seal(Marshal(cur[c].kh), MasterKey)

\* The store holds a record written by a Rotate and another record.
C9_Witness ==
    /\ Cardinality(Present(store)) >= 2
    /\ \E c \in Callers : Succeeded(c, "Rotate")

\* --- C10
\* What of a keyset is public: everything but the keys' secret bytes.
PublicComponents(kh) ==
    [primary |-> kh.primary,
     keys |-> [i \in DOMAIN kh.keys |-> [kh.keys[i] EXCEPT !.priv = NoId]]]

\* C10: the export of two records whose keysets have the same public
\* components is the same, whatever their secret bytes; and the bytes an
\* ExportPubKeyBytes returned are the export of every record with the
\* public components of the one it read.
C10_ExportIgnoresSecrets ==
    /\ \A i, j \in IDs :
          ( /\ Readable(store, i) /\ Readable(store, j)
            /\ PublicComponents(KeysetAt(store, i)) =
                   PublicComponents(KeysetAt(store, j)) )
          => ExportBytes(KeysetAt(store, i)) = ExportBytes(KeysetAt(store, j))
    /\ \A c \in Callers, j \in IDs :
          ( /\ Succeeded(c, "ExportPubKeyBytes")
            /\ Readable(store, j)
            /\ PublicComponents(KeysetAt(store, j)) =
                   PublicComponents(KeysetAt(ret[c].pre, ret[c].id)) )
          => /\ ExportBytes(KeysetAt(store, j)).err = ""
             /\ ExportBytes(KeysetAt(store, j)).bytes = ret[c].bytes

\* ExportPubKeyBytes returned the bytes of a record, and another record has
\* the same public components and other secret bytes.
C10_Witness ==
    \E c \in Callers, j \in IDs :
        /\ Succeeded(c, "ExportPubKeyBytes")
        /\ Readable(store, j)
        /\ Readable(store, ret[c].id)
        /\ KeysetAt(store, j) # KeysetAt(store, ret[c].id)
        /\ PublicComponents(KeysetAt(store, j)) =
               PublicComponents(KeysetAt(store, ret[c].id))

\* --- C11
\* The primary key of a keyset.
PrimaryKey(kh) ==
    kh.keys[CHOOSE i \in DOMAIN kh.keys : kh.keys[i].keyId = kh.primary]

\* A key of a symmetric key type (AEAD or MAC).
Symmetric(k) == Family(KeyTypes[k.code]) \in {"aead", "mac"}

\* C11: ExportPubKeyBytes(id) of a keyset whose primary key is symmetric
\* (an AEAD or a MAC key type) returns an error and no bytes.
C11_ExportSymmetricFails ==
    \A c \in Callers :
        ( /\ Returned(c)
          /\ ret[c].op = "ExportPubKeyBytes"
          /\ Readable(ret[c].pre, ret[c].id)
          /\ Symmetric(PrimaryKey(KeysetAt(ret[c].pre, ret[c].id))) )
        => ret[c].err # "" /\ ret[c].bytes = << >>

\* An export of a keyset whose primary key is a MAC key, and that has an
\* older asymmetric key, was refused by kh.Public().
C11_Witness ==
    \E c \in Callers :
        /\ Returned(c)
        /\ ret[c].op = "ExportPubKeyBytes"
        /\ Readable(ret[c].pre, ret[c].id)
        /\ Family(KeyTypes[PrimaryKey(KeysetAt(ret[c].pre, ret[c].id)).code]) = "mac"
        /\ Len(KeysetAt(ret[c].pre, ret[c].id).keys) = 2
        /\ ret[c].err = "keyset contains a non-private key"
        /\ ret[c].bytes = << >>

\* --- C12
\* C12: key-type resolution is total: a Create of each of the 19 supported
\* key types gets its template (the call fails of a lock or storage failure
\* only, and the key it returns is of that type), and a Create of any other
\* key type, the empty one included, returns an error, the empty id and no
\* handle, with no store operation issued and the store as it was.
C12_KeyTypeResolution ==
    /\ Cardinality(KeyTypeSet) = Len(KeyTypes)
    /\ Len(KeyTypes) = 19
    /\ \A c \in Callers :
         (Returned(c) /\ ret[c].op = "Create") =>
            IF ret[c].kt \in KeyTypeSet
            THEN /\ ret[c].err \in {"", "lock failure", "storage failure"}
                 /\ ret[c].err = "" =>
                       /\ Len(ret[c].kh.keys) = 1
                       /\ KeyTypes[ret[c].kh.keys[1].code] = ret[c].kt
            ELSE /\ ret[c].err \in {"missing key type", "key type unrecognized"}
                 /\ ret[c].outId = NoId
                 /\ ret[c].kh = NoHandle
                 /\ ret[c].io = {}
                 /\ store = ret[c].pre
    /\ \A c \in Callers :
         (pc[c] = "storeKeySet" /\ cur[c].op = "Create") =>
            /\ cur[c].kt \in KeyTypeSet
            /\ cur[c].kh.keys[1].code = TypeCode(cur[c].kt)

\* A Create of an unsupported key type was refused while the store held a
\* record, made by a Create of the last key type of the switch.
C12_Witness ==
    \E c \in Callers :
        /\ Returned(c)
        /\ ret[c].op = "Create"
        /\ ret[c].kt \notin KeyTypeSet
        /\ ret[c].err # ""
        /\ \E id \in IDs :
             /\ Readable(store, id)
             /\ KeysetAt(store, id).keys[1].code = Len(KeyTypes)

\* --- C13
\* C13: the step on which a Create returns successfully returns an id under
\* which the store held no record, when the call began and now, and under
\* which no earlier Create, Rotate or ImportPrivateKey stored a keyset (the
\* id differs from each id they returned); the step adds the one record
\* under that id and leaves every other record as it was when the call
\* began.
C13_CreateFreshId ==
    [][ \A c \in Callers :
          ( /\ pc[c] = "writerPut"
            /\ cur[c].op = "Create"
            /\ pc'[c] = "idle"
            /\ ret'[c].err = "" )
          => /\ ret'[c].outId \in IDs
             /\ ret'[c].pre[ret'[c].outId] = NoRec
             /\ store[ret'[c].outId] = NoRec
             /\ lastPut[ret'[c].outId] = NoHandle
             /\ store'[ret'[c].outId] # NoRec
             /\ Present(store') = Present(ret'[c].pre) \cup {ret'[c].outId}
             /\ \A j \in IDs \ {ret'[c].outId} : store'[j] = ret'[c].pre[j]
      ]_vars

\* A Create succeeded after an id returned earlier had been freed by a
\* Rotate: the store holds no record under an id that was returned.
C13_Witness ==
    \E c \in Callers :
        /\ Succeeded(c, "Create")
        /\ store[ret[c].outId] # NoRec
        /\ \E j \in IDs \ {ret[c].outId} :
             /\ lastPut[j] # NoHandle
             /\ ret[c].pre[j] = NoRec
        /\ Present(ret[c].pre) # {}

\* --- C14
\* C14: PubKeyBytesToHandle issues no store operation (no get, put or
\* delete) and leaves the store as it was; the handle it returns is the
\* keyset of no record of the store, so no Get returns it.
C14_PubKeyBytesToHandleNoIO ==
    \A c \in Callers :
        (Returned(c) /\ ret[c].op = "PubKeyBytesToHandle") =>
            /\ ret[c].io = {}
            /\ store = ret[c].pre
            /\ ret[c].outId = NoId
            /\ ret[c].err = "" =>
                  /\ ret[c].kh # NoHandle
                  /\ \A id \in IDs :
                       Readable(store, id) => KeysetAt(store, id) # ret[c].kh

\* A PubKeyBytesToHandle returned a handle while the store held the
\* keyset of a private key of the same key type.
C14_Witness ==
    \E c \in Callers :
        /\ Succeeded(c, "PubKeyBytesToHandle")
        /\ ret[c].kh # NoHandle
        /\ \E id \in IDs :
             /\ Readable(store, id)
             /\ KeysetAt(store, id).keys[1].code = ret[c].kh.keys[1].code

\* --- C15
\* The key a Rotate appended: the last key of the keyset it returned.
AddedKey(kh) == kh.keys[Len(kh.keys)]

C18_SameIdImportsExclusive ==
    /\ \A c \in Callers : \A d \in Callers \ {c} :
         ~ ( /\ Succeeded(c, "ImportPrivateKey")
             /\ Succeeded(d, "ImportPrivateKey")
             /\ ret[c].reqId # NoId
             /\ ret[c].reqId = ret[d].reqId )
    /\ \A c \in Callers :
         (Succeeded(c, "ImportPrivateKey") /\ ret[c].reqId # NoId) =>
            /\ ret[c].outId = ret[c].reqId
            /\ Readable(store, ret[c].reqId)
            /\ KeysetAt(store, ret[c].reqId) = ret[c].kh

\* --- C16
\* Whether a record is corrupt or sealed under another master key: its
\* envelope was altered or truncated, is of another key, or holds bytes
\* that are not the framing of a keyset.
Corrupt(blob) ==
    \/ blob.form # "sealed"
    \/ ~blob.intact
    \/ blob.mk # MasterKey
    \/ Len(blob.pt) < 2
    \/ Len(blob.pt) # 2 + 5 * blob.pt[2]

\* C16: Get(id) fails closed: when the record under id is corrupt (a byte
\* altered, the framing truncated) or sealed under a different master key,
\* Get returns an error and no handle; a Get that returns a handle returns
\* the keyset that was sealed under id, and a Get that returns an error
\* returns no handle.
C16_GetFailsClosed ==
    \A c \in Callers :
        (Returned(c) /\ ret[c].op = "Get") =>
            /\ ( /\ ret[c].pre[ret[c].id] # NoRec
                 /\ Corrupt(ret[c].pre[ret[c].id]) )
               => ret[c].err # "" /\ ret[c].kh = NoHandle
            /\ ret[c].err = "" =>
                  /\ ret[c].kh # NoHandle
                  /\ ret[c].kh = lastPut[ret[c].id]
            /\ ret[c].err # "" => ret[c].kh = NoHandle

\* A Get of a record with an altered byte returned 'decryption failed'
\* and no handle.
C16_Witness ==
    \E c \in Callers :
        /\ Returned(c)
        /\ ret[c].op = "Get"
        /\ ret[c].pre[ret[c].id] # NoRec
        /\ ~ret[c].pre[ret[c].id].intact
        /\ ret[c].pre[ret[c].id].pt # Marshal(lastPut[ret[c].id])
        /\ Len(ret[c].pre[ret[c].id].pt) = Len(Marshal(lastPut[ret[c].id]))
        /\ ret[c].err = "decryption failed"
        /\ ret[c].kh = NoHandle

\* --- C17
\* C17: a call of ImportPrivateKey with a value that is neither an ECDSA
\* nor an Ed25519 private key (bytes of a symmetric key, a public key)
\* returns at once with the error of unsupported input, the empty id and
\* no handle; it issues no store operation and the store stays as it is.
C17_ImportUnsupportedKey ==
    [][ \A c \in Callers, privKey \in PrivKeyInputs,
           kt \in ImportKeyTypes, reqId \in ReqIds :
          ( /\ privKey.kind \notin {"ecdsa", "ed25519"}
            /\ ImportPrivateKey(c, privKey, kt, reqId) )
          => /\ pc'[c] = "idle"
             /\ ret'[c].op = "ImportPrivateKey"
             /\ ret'[c].err =
                  "import private key does not support this key type or key is public"
             /\ ret'[c].outId = NoId
             /\ ret'[c].kh = NoHandle
             /\ ret'[c].io = {}
             /\ store' = store
             /\ store' = ret'[c].pre
             /\ issued' = issued
      ]_vars

\* An ImportPrivateKey of an unsupported value, with the request of an id
\* the store has no record under, was refused while the store held a
\* record.
C17_Witness ==
    \E c \in Callers :
        /\ Returned(c)
        /\ ret[c].op = "ImportPrivateKey"
        /\ ret[c].err =
             "import private key does not support this key type or key is public"
        /\ ret[c].reqId # NoId
        /\ store[ret[c].reqId] = NoRec
        /\ Present(store) # {}
        /\ ret[c].io = {}

\* --- C19
\* C19: Get and ExportPubKeyBytes are read-only: whether the call
\* succeeded or failed, it issued no store put and no store delete, and
\* the store is as it was when the call began.
C19_ReadOnlyCalls ==
    \A c \in Callers :
        (Returned(c) /\ ret[c].op \in {"Get", "ExportPubKeyBytes"}) =>
            /\ ret[c].io \subseteq {"get"}
            /\ store = ret[c].pre

\* A Get returned the keyset of one of two records of the store.
C19_Witness ==
    \E c \in Callers :
        /\ Succeeded(c, "Get")
        /\ ret[c].kh # NoHandle
        /\ ret[c].io = {"get"}
        /\ Cardinality(Present(store)) = 2

====
